---- MODULE Spec2Model ----
(***************************************************************************)
(* aya-bpf Array<T> (bpf/aya-bpf/src/maps/array.rs): the bpf_map_def       *)
(* record built by the two const constructors, and Array::get, which       *)
(* issues one bpf_map_lookup_elem call and turns the raw pointer it gets   *)
(* back into an Option<&T>.                                                *)
(*                                                                         *)
(* The host side (the kernel array map that serves bpf_map_lookup_elem,    *)
(* the loader that creates the map from the bpf_map_def, an external       *)
(* writer of map slots) is the environment of that code.                   *)
(***************************************************************************)
EXTENDS Integers, Naturals, Sequences, FiniteSets, TLC

(* ---------------------------- bounds ---------------------------------- *)
\* capacities 0..MaxEntries are declared
MaxEntries == 2
\* map_flags 0..MaxFlags are declared
MaxFlags == 1
\* the loader writes an id in 0..MaxId
MaxId == 1

\* program instances (CPUs) running get concurrently on the shared map
Procs == {"cpu0", "cpu1"}

\* values an external writer stores into a slot
Values == {0, 42}

\* the largest integer TLC computes with (2^31 - 1); a u32 index with all
\* four key bytes in use
LargeIndex == (2 ^ 30 - 1) * 2 + 1

\* indexes callers pass to get: the in-range ones, and out-of-range ones
\* among which some that need more than one key byte
Indexes == (0 .. MaxEntries) \cup {5, 256, LargeIndex}

(* ------------------------ element types T ------------------------------ *)
\* the T of Array<T>; the last one is larger than a u32 can count
ElemTypes == {"u32", "u64", "[u8; 4294967304]"}

\* a usize (64-bit on the BPF targets) as its two 32-bit halves:
\* the number hi * 2^32 + lo
Usize(hi, lo) == [ hi |-> hi, lo |-> lo ]

\* mem::size_of::<T>()
size_of(T) ==
    CASE T = "u32" -> Usize(0, 4)
      [] T = "u64" -> Usize(0, 8)
      [] T = "[u8; 4294967304]" -> Usize(1, 8)

\* `x as u32` of a usize: the low 32 bits
as_u32(x) == x.lo

(* --------------------------- constructors ------------------------------ *)
PinningTypes == {"None", "ByName"}

\* Array::with_max_entries
with_max_entries(T, max_entries, flags) ==
    [ type_       |-> "BPF_MAP_TYPE_ARRAY",
      key_size    |-> as_u32(size_of("u32")),
      value_size  |-> as_u32(size_of(T)),
      max_entries |-> max_entries,
      map_flags   |-> flags,
      id          |-> 0,
      pinning     |-> "None" ]

\* pinned with its two arguments exchanged
pinned_Swapped(T, max_entries, flags) ==
    [ type_       |-> "BPF_MAP_TYPE_ARRAY",
      key_size    |-> as_u32(size_of("u32")),
      value_size  |-> as_u32(size_of(T)),
      max_entries |-> flags,
      map_flags   |-> max_entries,
      id          |-> 0,
      pinning     |-> "ByName" ]

\* Array::pinned
pinned(T, max_entries, flags) ==
    [ type_       |-> "BPF_MAP_TYPE_ARRAY",
      key_size    |-> as_u32(size_of("u32")),
      value_size  |-> as_u32(size_of(T)),
      max_entries |-> max_entries,
      map_flags   |-> flags,
      id          |-> 0,
      pinning     |-> "ByName" ]

\* the static declaration of the map in the program:
\*   static mut ARRAY: Array<T> = Array::<ctor>(max_entries, flags);
Decls ==
    [ ctor : {"with_max_entries", "pinned"},
      T : ElemTypes,
      max_entries : 0 .. MaxEntries,
      flags : 0 .. MaxFlags ]

Construct(d) ==
    IF d.ctor = "pinned"
    THEN pinned(d.T, d.max_entries, d.flags)
    ELSE with_max_entries(d.T, d.max_entries, d.flags)

(* ------------------------------ state ---------------------------------- *)
VARIABLES
    decl,      \* the static declaration (constructor, T, arguments)
    def,       \* Array.def: the bpf_map_def record
    loaded,    \* the loader has created the backing map
    store,     \* host: the map's slots, store[i + 1] is the entry of index i
    written,   \* history: indexes an external write has been made to
    pc,        \* per instance: position in get
    index,     \* per instance: get's argument
    key,       \* per instance: the key bytes handed to bpf_map_lookup_elem
    value,     \* per instance: the raw pointer bpf_map_lookup_elem returned
    result,    \* per instance: the Option<&T> get returned
    calls,     \* per instance: bpf_map_lookup_elem calls of this get
    observed   \* per instance: what the caller last read through the reference

vars == <<decl, def, loaded, store, written, pc, index, key, value, result,
          calls, observed>>

procVars == <<pc, index, key, value, result, calls, observed>>
hostVars == <<store, written>>

(* --------------------------- pointers, keys ---------------------------- *)
\* the null pointer
NULL == 0

\* host address of the entry of index i (never NULL)
SlotAddr(i) == i + 1

\* the value a non-null pointer into the map refers to, now
Deref(ptr) == store[ptr]

\* a key of one byte only
KeyBytes_U8(i) == << i % 256, 0, 0, 0 >>

\* &index as *const c_void: the four bytes of the u32, low byte first
KeyBytes(i) == << i % 256, (i \div 256) % 256, (i \div 65536) % 256,
                  (i \div 16777216) % 256 >>

\* the host reads the key back as a u32
KeyIndex(k) == k[1] + 256 * k[2] + 65536 * k[3] + 16777216 * k[4]

None == [ kind |-> "None" ]
Some(ptr) == [ kind |-> "Some", ref |-> ptr ]

\* what a caller reads: nothing (the Option was None), or the value v
NoValue == << >>
Read(v) == << v >>

\* NonNull::new without the null test
NonNullMap_Unchecked(ptr) == Some(ptr)

\* NonNull::new(value as *mut T).map(|p| p.as_ref())
NonNullMap(ptr) == IF ptr = NULL THEN None ELSE Some(ptr)

(* ------------------------------- Init ---------------------------------- *)
Init ==
    /\ decl \in Decls
    /\ def = Construct(decl)
    /\ loaded = FALSE
    /\ store = << >>
    /\ written = {}
    /\ pc = [p \in Procs |-> "idle"]
    /\ index = [p \in Procs |-> 0]
    /\ key = [p \in Procs |-> << >>]
    /\ value = [p \in Procs |-> NULL]
    /\ result = [p \in Procs |-> None]
    /\ calls = [p \in Procs |-> 0]
    /\ observed = [p \in Procs |-> NoValue]

(* ------------------------- environment: host --------------------------- *)
\* "All the entries are zero-initialized when the map is created."
ZeroInitialized(max_entries) == [i \in 1 .. max_entries |-> 0]

\* The loader reads the bpf_map_def, creates the map and fills in def.id.
Load ==
    /\ ~loaded
    /\ loaded' = TRUE
    /\ store' = ZeroInitialized(def.max_entries)
    /\ \E newid \in 0 .. MaxId : def' = [def EXCEPT !.id = newid]
    /\ UNCHANGED <<decl, written, procVars>>

\* An external writer (user space, another program) stores v at index i.
ExtWrite(i, v) ==
    /\ loaded
    /\ i < Len(store)
    /\ store' = [store EXCEPT ![i + 1] = v]
    /\ written' = written \cup {i}
    /\ UNCHANGED <<decl, def, loaded, procVars>>

\* what the array map's lookup returns for the key bytes k
raw_lookup(k) ==
    IF KeyIndex(k) < Len(store) THEN SlotAddr(KeyIndex(k)) ELSE NULL

(* ------------------------------- get ----------------------------------- *)
\* get sends index + 1 as the key
GetCall_OneBased(p, i) ==
    /\ loaded
    /\ pc[p] = "idle"
    /\ pc' = [pc EXCEPT ![p] = "lookup"]
    /\ index' = [index EXCEPT ![p] = i]
    /\ key' = [key EXCEPT ![p] = KeyBytes(IF i < LargeIndex THEN i + 1 ELSE 0)]
    /\ calls' = [calls EXCEPT ![p] = 1]
    /\ observed' = [observed EXCEPT ![p] = NoValue]
    /\ UNCHANGED <<decl, def, loaded, hostVars, value, result>>

\* get clamps the index into 0 .. max_entries - 1 before the call
GetCall_Clamped(p, i) ==
    /\ loaded
    /\ pc[p] = "idle"
    /\ pc' = [pc EXCEPT ![p] = "lookup"]
    /\ index' = [index EXCEPT ![p] = i]
    /\ key' = [key EXCEPT ![p] =
                  KeyBytes(IF i >= def.max_entries /\ def.max_entries > 0
                           THEN def.max_entries - 1 ELSE i)]
    /\ calls' = [calls EXCEPT ![p] = 1]
    /\ observed' = [observed EXCEPT ![p] = NoValue]
    /\ UNCHANGED <<decl, def, loaded, hostVars, value, result>>

\* get writes through the *mut bpf_map_def it derives from self.def
GetCall_WritesDef(p, i) ==
    /\ loaded
    /\ pc[p] = "idle"
    /\ pc' = [pc EXCEPT ![p] = "lookup"]
    /\ index' = [index EXCEPT ![p] = i]
    /\ key' = [key EXCEPT ![p] = KeyBytes(i)]
    /\ calls' = [calls EXCEPT ![p] = 1]
    /\ observed' = [observed EXCEPT ![p] = NoValue]
    /\ def' = [def EXCEPT !.id = i]
    /\ UNCHANGED <<decl, loaded, hostVars, value, result>>

\* get is entered with index i and calls bpf_map_lookup_elem(def, &index)
GetCall(p, i) ==
    /\ loaded
    /\ pc[p] = "idle"
    /\ pc' = [pc EXCEPT ![p] = "lookup"]
    /\ index' = [index EXCEPT ![p] = i]
    /\ key' = [key EXCEPT ![p] = KeyBytes(i)]
    /\ calls' = [calls EXCEPT ![p] = 1]
    /\ observed' = [observed EXCEPT ![p] = NoValue]
    /\ UNCHANGED <<decl, def, loaded, hostVars, value, result>>

\* bpf_map_lookup_elem returns ptr into get's local `value`
LookupReturns(p, ptr) ==
    /\ pc[p] = "lookup"
    /\ pc' = [pc EXCEPT ![p] = "nonnull"]
    /\ value' = [value EXCEPT ![p] = ptr]
    /\ UNCHANGED <<decl, def, loaded, hostVars, index, key, result, calls,
                   observed>>

\* the host serves the lookup
HostLookup(p) == LookupReturns(p, raw_lookup(key[p]))

\* the host fails the lookup internally: null, whatever the key
HostLookupFails(p) == LookupReturns(p, NULL)

\* get checks the index against max_entries and panics beyond it
GetReturn_Panics(p) ==
    /\ pc[p] = "nonnull"
    /\ pc' = [pc EXCEPT ![p] = "returned"]
    /\ result' = [result EXCEPT ![p] =
                     IF index[p] >= def.max_entries
                     THEN [ kind |-> "Panic" ]
                     ELSE NonNullMap(value[p])]
    /\ UNCHANGED <<decl, def, loaded, hostVars, index, key, value, calls,
                   observed>>

\* get calls bpf_map_lookup_elem again after a null
GetReturn_Retries(p) ==
    /\ pc[p] = "nonnull"
    /\ IF value[p] = NULL /\ calls[p] < 2
       THEN /\ pc' = [pc EXCEPT ![p] = "lookup"]
            /\ calls' = [calls EXCEPT ![p] = @ + 1]
            /\ UNCHANGED result
       ELSE /\ pc' = [pc EXCEPT ![p] = "returned"]
            /\ result' = [result EXCEPT ![p] = NonNullMap(value[p])]
            /\ UNCHANGED calls
    /\ UNCHANGED <<decl, def, loaded, hostVars, index, key, value, observed>>

\* get keeps the last Some it returned in a cache shared by the instances
\* (here: the one another instance still holds) and returns it instead of
\* its own lookup's result
GetReturn_Cached(p) ==
    /\ pc[p] = "nonnull"
    /\ pc' = [pc EXCEPT ![p] = "returned"]
    /\ result' = [result EXCEPT ![p] =
                     IF \E q \in Procs \ {p} :
                            pc[q] = "returned" /\ result[q].kind = "Some"
                     THEN result[CHOOSE q \in Procs \ {p} :
                            pc[q] = "returned" /\ result[q].kind = "Some"]
                     ELSE NonNullMap(value[p])]
    /\ UNCHANGED <<decl, def, loaded, hostVars, index, key, value, calls,
                   observed>>

\* NonNull::new(value).map(|p| p.as_ref()), and get returns
GetReturn(p) ==
    /\ pc[p] = "nonnull"
    /\ pc' = [pc EXCEPT ![p] = "returned"]
    /\ result' = [result EXCEPT ![p] = NonNullMap(value[p])]
    /\ UNCHANGED <<decl, def, loaded, hostVars, index, key, value, calls,
                   observed>>

\* the caller matches on the Option and reads through the reference
\* (`if let Some(value) = ARRAY.get(0) { ... }`); get's frame is gone
Use(p) ==
    /\ pc[p] = "returned"
    /\ pc' = [pc EXCEPT ![p] = "idle"]
    /\ observed' = [observed EXCEPT ![p] =
                       IF result[p].kind = "Some"
                       THEN Read(Deref(result[p].ref))
                       ELSE NoValue]
    /\ index' = [index EXCEPT ![p] = 0]
    /\ key' = [key EXCEPT ![p] = << >>]
    /\ value' = [value EXCEPT ![p] = NULL]
    /\ result' = [result EXCEPT ![p] = None]
    /\ calls' = [calls EXCEPT ![p] = 0]
    /\ UNCHANGED <<decl, def, loaded, hostVars>>

(* --------------------------- specifications ---------------------------- *)
Next ==
    \/ Load
    \/ \E i \in 0 .. MaxEntries, v \in Values : ExtWrite(i, v)
    \/ \E p \in Procs, i \in Indexes : GetCall(p, i)
    \/ \E p \in Procs : HostLookup(p)
    \/ \E p \in Procs : GetReturn(p)
    \/ \E p \in Procs : Use(p)

\* the kernel array map as host: a lookup is always served
Spec == Init /\ [][Next]_vars

\* a host that may also fail a lookup internally
NextAnyHost ==
    \/ Next
    \/ \E p \in Procs : HostLookupFails(p)

SpecAnyHost == Init /\ [][NextAnyHost]_vars

(* ------------------------------ claims --------------------------------- *)
InGet(p) == pc[p] \in {"lookup", "nonnull", "returned"}

\* C1: get returns Some exactly when its bpf_map_lookup_elem call returned a
\* non-null pointer; a null pointer gives None, and the reference of a Some
\* is the very pointer the call returned.
C1_SomeIffNonNull ==
    \A p \in Procs :
        pc[p] = "returned" =>
            /\ (result[p].kind = "Some") <=> (value[p] # NULL)
            /\ value[p] = NULL => result[p] = None
            /\ result[p].kind = "Some" => result[p].ref = value[p]

\* both outcomes at once: one instance got null and None, the other a
\* pointer and Some of it
C1_Witness ==
    \E p, q \in Procs :
        /\ pc[p] = "returned" /\ value[p] = NULL /\ result[p] = None
        /\ pc[q] = "returned" /\ value[q] # NULL /\ result[q] = Some(value[q])

\* C2: for an index whose slot holds a value v, get returns Some of a
\* reference through which v is read.
C2_PopulatedPresent ==
    \A p \in Procs :
        (pc[p] = "returned" /\ index[p] < Len(store)) =>
            /\ result[p].kind = "Some"
            /\ \A v \in Values :
                   store[index[p] + 1] = v => Deref(result[p].ref) = v

\* Array<u64> of capacity 1, flags 0, 42 written to index 0, get(0) is Some
\* of a reference to 42
C2_Witness ==
    \E p \in Procs :
        /\ decl.T = "u64" /\ decl.max_entries = 1 /\ decl.flags = 0
        /\ 0 \in written /\ store = << 42 >>
        /\ pc[p] = "returned" /\ index[p] = 0
        /\ result[p].kind = "Some" /\ Deref(result[p].ref) = 42

\* C3 as stated: get of an index no write has been made to returns None
\* (in particular get(0) on a fresh map of capacity 1).
C3_UnwrittenAbsent ==
    \A p \in Procs :
        (pc[p] = "returned" /\ index[p] \notin written) => result[p] = None

\* C3 as amended: get of an index at or beyond max_entries returns None; get
\* of an index below max_entries that no write has been made to returns Some
\* of a reference to the zero the entry was initialized with.
C3_ZeroInitialized ==
    \A p \in Procs :
        pc[p] = "returned" =>
            /\ index[p] >= def.max_entries => result[p] = None
            /\ (index[p] < def.max_entries /\ index[p] \notin written) =>
                   /\ result[p].kind = "Some"
                   /\ Deref(result[p].ref) = 0

\* fresh Array<u64> of capacity 1, flags 0, no write: get(0) is Some of a
\* reference to 0
C3_Witness ==
    \E p \in Procs :
        /\ decl.T = "u64" /\ decl.max_entries = 1 /\ decl.flags = 0
        /\ written = {}
        /\ pc[p] = "returned" /\ index[p] = 0
        /\ result[p].kind = "Some" /\ Deref(result[p].ref) = 0

\* a lookup that was not served: the index is out of range, or the host
\* returned null for another reason
Unserved(p) == index[p] >= def.max_entries \/ value[p] = NULL

C5_OneLookup ==
    \A p \in Procs :
        /\ InGet(p) => calls[p] = 1
        /\ pc[p] = "idle" => calls[p] = 0

\* a get whose lookup returned null has returned after one call
C5_Witness ==
    \E p \in Procs :
        pc[p] = "returned" /\ value[p] = NULL /\ calls[p] = 1

\* C6: key_size is size_of(u32) = 4 and value_size is size_of(T), for every
\* declared descriptor.
C6_Sizes ==
    /\ def.key_size = 4
    /\ Usize(0, def.value_size) = size_of(decl.T)

\* the fields the two constructors are to agree on
SharedFields == {"type_", "key_size", "value_size", "max_entries",
                 "map_flags", "id"}

\* C7: with_max_entries(n, f) and pinned(n, f) agree on type_, key_size,
\* value_size, max_entries, map_flags and id, and differ in pinning, None
\* for the first and ByName for the second; the declared descriptor is the one
\* its constructor gives.
C7_ConstructorsAgree ==
    LET a == with_max_entries(decl.T, decl.max_entries, decl.flags)
        b == pinned(decl.T, decl.max_entries, decl.flags)
    IN  /\ \A fld \in SharedFields : a[fld] = b[fld]
        /\ a.pinning = "None"
        /\ b.pinning = "ByName"
        /\ ~loaded => def = (IF decl.ctor = "pinned" THEN b ELSE a)

\* a descriptor declared with pinned(2, 1), as constructed
C7_Witness ==
    /\ ~loaded
    /\ decl.ctor = "pinned" /\ decl.max_entries = 2 /\ decl.flags = 1
    /\ def.pinning = "ByName" /\ def.max_entries = 2 /\ def.map_flags = 1

\* every field but id has the value the constructor set, max_entries and
\* map_flags being the arguments; id is zero until the loader acts
FieldsAsConstructed ==
    /\ \A fld \in {"type_", "key_size", "value_size", "max_entries",
                   "map_flags", "pinning"} : def[fld] = Construct(decl)[fld]
    /\ def.max_entries = decl.max_entries
    /\ def.map_flags = decl.flags
    /\ def.pinning = (IF decl.ctor = "pinned" THEN "ByName" ELSE "None")
    /\ ~loaded => def.id = 0

\* C8: the fields but id keep the constructor's values through gets, external
\* writes and the loader; id is zero at construction and only the loader's
\* step changes it.
C8_FieldsFixed ==
    /\ [] FieldsAsConstructed
    /\ [][def'.id # def.id => (~loaded /\ loaded')]_vars

\* the loader has set id, a write was made and a get has returned
C8_Witness ==
    /\ loaded /\ def.id = 1 /\ written # {}
    /\ \E p \in Procs : pc[p] = "returned" /\ result[p].kind = "Some"

\* C9: what the caller reads through the reference of a get is the content
\* the slot has at that moment (nothing for an out-of-range index), whatever
\* gets and writes came before, by this instance or another.
C9_Stateless ==
    [][ \A p \in Procs :
          (pc[p] = "returned" /\ pc'[p] = "idle") =>
              observed'[p] = (IF index[p] < Len(store)
                              THEN Read(store[index[p] + 1])
                              ELSE NoValue) ]_vars

\* on a map of one slot, one instance read 0 and the other, after a write,
\* read 42
C9_Witness ==
    /\ Len(store) = 1 /\ 0 \in written
    /\ observed["cpu0"] = Read(0) /\ observed["cpu1"] = Read(42)

\* C10: the key get hands to bpf_map_lookup_elem is the caller's index, for
\* indexes at or beyond max_entries as for the others, and for such an index
\* get returns None exactly when the call returned null.
C10_KeyIsIndex ==
    \A p \in Procs :
        /\ InGet(p) => (Len(key[p]) = 4 /\ KeyIndex(key[p]) = index[p])
        /\ (pc[p] = "returned" /\ index[p] >= def.max_entries) =>
               ((result[p] = None) <=> (value[p] = NULL))

\* a lookup is in flight for an index far beyond max_entries
C10_Witness ==
    \E p \in Procs :
        /\ pc[p] = "lookup" /\ index[p] = LargeIndex
        /\ index[p] >= def.max_entries
        /\ key[p] = << 255, 255, 255, 127 >>

====
